---- MODULE Spec2Model ----
(***************************************************************************)
(* Model of the photos-widget application: the widget rotation state       *)
(* (services/widget-storage.ts, widgets/photo-widget.tsx) and the Google   *)
(* Photos picker acquisition run (app/photo-picker.tsx).                   *)
(*                                                                         *)
(* A WidgetPhoto is modelled by its id: url, localPath, width and height   *)
(* are functions of the id in every producer of photos.  Platform.OS is    *)
(* "android" throughout (the widget exists on Android only), and the       *)
(* native WidgetRotationModule of the foreground service is present.       *)
(* An optional value (WidgetData | null) is a sequence of length 0 or 1.   *)
(***************************************************************************)
EXTENDS Integers, Sequences, FiniteSets, TLC

(* ---------------------------- bounds ---------------------------------- *)
MaxPhotos == 2
NumProcs == 2
MaxItems == 2
MaxRuns == 2
MaxNow == 1
MaxInput == 2
MaxCustom == 11
MaxMerged == 4

(* ------------------------ program constants --------------------------- *)
maxAttempts == 60
PollIntervalMs == 5000

Procs == 1..NumProcs
Locs == {"prefs", "file"}
DisplayModes == {"single", "slideshow"}

\* the photo lists callers hand to saveWidgetPhotos: ids 1..n in ascending or descending order
Ascending(n) == [i \in 1..n |-> i]
Descending(n) == [i \in 1..n |-> n + 1 - i]
PhotoLists == {Ascending(n) : n \in 0..MaxPhotos} \cup {Descending(n) : n \in 0..MaxPhotos}

VARIABLES
    nativeModule,   \* NativeModules.SharedPreferencesModule is available
    store,          \* store[loc]: the record persisted at loc, <<>> when absent
    now,            \* Date.now()
    procs,          \* procs[p]: the async store operation process p is running
    screenData,     \* photos of PhotosScreen's React state widgetData (widgetData?.photos || [])
    expIdx,         \* history: index each location holds if every finished advance moved it one step
    advValid,       \* history: no other writer wrote the location while an advance was in flight
    won,            \* history: the last replace that completed while an advance was in flight
    state,          \* PhotoPickerScreen state (PickerState)
    pc,             \* position of the acquisition run's async code
    run,            \* the acquisition run's locals and its history
    call,           \* the call running when calls are made one at a time, and its history
    settings        \* SettingsScreen's React state and what it reads and writes

vars == <<nativeModule, store, now, procs, screenData, expIdx, advValid, won, state, pc, run,
          call, settings>>

storeVars == <<nativeModule, store, now, procs, screenData, expIdx, advValid, won>>
acqVars == <<state, pc, run>>
seqVars == <<call, settings>>

(* -------------------- widget-storage.ts ------------------------------- *)
WidgetData(photos, idx, mode, t) ==
    [photos |-> photos, currentIndex |-> idx, displayMode |-> mode, lastUpdated |-> t]

\* where the app's saveWidgetData / getWidgetData keep the record
AppLoc == IF nativeModule THEN "prefs" ELSE "file"

\* getWidgetData of widget-storage.ts
getWidgetData == store[AppLoc]

\* saveWidgetData of widget-storage.ts: the store after writing d (ok = the write succeeded)
saveWidgetData(d, ok) == IF ok THEN [store EXCEPT ![AppLoc] = <<d>>] ELSE store

\* the record built with the index of the record it replaces
saveWidgetPhotosKeepIndex(photos, mode) ==
    WidgetData(photos, IF getWidgetData = <<>> THEN 0 ELSE getWidgetData[1].currentIndex, mode, now)

\* the record saveWidgetPhotos builds
saveWidgetPhotos(photos, mode) == WidgetData(photos, 0, mode, now)

\* the next index wrapping one photo early
nextIndexOfShortWrap(d) == IF d.currentIndex + 1 >= Len(d.photos) - 1 THEN 0 ELSE d.currentIndex + 1

\* (widgetData.currentIndex + 1) % widgetData.photos.length
nextIndexOf(d) == (d.currentIndex + 1) % Len(d.photos)

NoWin == [active |-> FALSE, photos |-> <<>>, mode |-> "single"]

\* process p is the first one not running a call
FirstIdle(p) == procs[p].op = "idle" /\ \A q \in Procs : q < p => procs[q].op # "idle"

IdleProc == [op |-> "idle", pc |-> "none", nextIndex |-> 0, data |-> <<>>]

\* the location an in-flight advance of process p writes
AdvLoc(p) == IF procs[p].op = "rotatePhoto" THEN "file" ELSE AppLoc

AdvanceInFlight(loc) ==
    \E p \in Procs : procs[p].op \in {"rotateToNextPhoto", "rotatePhoto"} /\ AdvLoc(p) = loc

\* history kept when a writer other than advance writes newStore
OtherWrite(newStore) ==
    /\ expIdx' = [l \in Locs |->
                    IF newStore[l] # store[l]
                    THEN (IF newStore[l] = <<>> \/ AdvanceInFlight(l) THEN 0
                          ELSE newStore[l][1].currentIndex)
                    ELSE expIdx[l]]
    /\ advValid' = [l \in Locs |->
                    IF newStore[l] # store[l] THEN ~AdvanceInFlight(l) ELSE advValid[l]]

\* history kept when an advance of p on loc finishes having written d
AdvanceDone(loc, d, ok) ==
    /\ expIdx' = [expIdx EXCEPT ![loc] =
                    IF ok /\ advValid[loc] /\ Len(d.photos) > 0 THEN (@ + 1) % Len(d.photos) ELSE @]
    /\ UNCHANGED advValid

\* rotateToNextPhoto: first read, early return, nextIndex
RotateToNextPhotoRead(p) ==
    /\ FirstIdle(p)
    /\ LET w == getWidgetData IN
       IF w = <<>> \/ Len(w[1].photos) = 0
       THEN procs' = procs
       ELSE procs' = [procs EXCEPT ![p] =
                [op |-> "rotateToNextPhoto", pc |-> "update_read",
                 nextIndex |-> nextIndexOf(w[1]), data |-> <<>>]]
    /\ won' = NoWin
    /\ UNCHANGED <<nativeModule, store, now, screenData, expIdx, advValid>>
    /\ UNCHANGED acqVars
    /\ UNCHANGED seqVars

\* updateCurrentPhotoIndex: second read, early return, the record to write
UpdateCurrentPhotoIndexRead(p) ==
    /\ procs[p].op = "rotateToNextPhoto" /\ procs[p].pc = "update_read"
    /\ LET w == getWidgetData IN
       IF w = <<>>
       THEN procs' = [procs EXCEPT ![p] = IdleProc]
       ELSE procs' = [procs EXCEPT ![p].pc = "update_write",
                                   ![p].nextIndex = 0,
                                   ![p].data = <<[w[1] EXCEPT !.currentIndex = procs[p].nextIndex,
                                                              !.lastUpdated = now]>>]
    /\ UNCHANGED <<nativeModule, store, now, screenData, expIdx, advValid, won>>
    /\ UNCHANGED acqVars
    /\ UNCHANGED seqVars

\* updateCurrentPhotoIndex: saveWidgetData(widgetData)
UpdateCurrentPhotoIndexWrite(p) ==
    /\ procs[p].op = "rotateToNextPhoto" /\ procs[p].pc = "update_write"
    /\ \E ok \in BOOLEAN :
        /\ store' = saveWidgetData(procs[p].data[1], ok)
        /\ AdvanceDone(AppLoc, procs[p].data[1], ok)
    /\ procs' = [procs EXCEPT ![p] = IdleProc]
    /\ UNCHANGED <<nativeModule, now, screenData, won>>
    /\ UNCHANGED acqVars
    /\ UNCHANGED seqVars

\* widgets/photo-widget.tsx rotatePhoto: read of widget-data.json, early return, the record to write
RotatePhotoRead(p) ==
    /\ FirstIdle(p)
    /\ LET w == store["file"] IN
       IF w = <<>> \/ Len(w[1].photos) <= 1
       THEN procs' = procs
       ELSE procs' = [procs EXCEPT ![p] =
                [op |-> "rotatePhoto", pc |-> "widget_write", nextIndex |-> 0,
                 data |-> <<[w[1] EXCEPT !.currentIndex = nextIndexOf(w[1]),
                                         !.lastUpdated = now]>>]]
    /\ won' = IF AppLoc = "file" THEN NoWin ELSE won
    /\ UNCHANGED <<nativeModule, store, now, screenData, expIdx, advValid>>
    /\ UNCHANGED acqVars
    /\ UNCHANGED seqVars

\* widgets/photo-widget.tsx saveWidgetData: a failed write is logged and swallowed
RotatePhotoWrite(p) ==
    /\ procs[p].op = "rotatePhoto" /\ procs[p].pc = "widget_write"
    /\ \E ok \in BOOLEAN :
        /\ store' = IF ok THEN [store EXCEPT !["file"] = procs[p].data] ELSE store
        /\ AdvanceDone("file", procs[p].data[1], ok)
    /\ procs' = [procs EXCEPT ![p] = IdleProc]
    /\ UNCHANGED <<nativeModule, now, screenData, won>>
    /\ UNCHANGED acqVars
    /\ UNCHANGED seqVars

\* clearWidgetData: SharedPreferencesModule.clearWidgetData when the module is there;
\* a throw ends the call (caught and logged)
ClearWidgetDataPrefs(p) ==
    /\ FirstIdle(p)
    /\ \E ok \in BOOLEAN :
        LET newStore == IF nativeModule /\ ok THEN [store EXCEPT !["prefs"] = <<>>] ELSE store IN
        /\ store' = newStore
        /\ OtherWrite(newStore)
        /\ procs' = [procs EXCEPT ![p] =
                IF ok THEN [IdleProc EXCEPT !.op = "clearWidgetData", !.pc = "clear_file"]
                ELSE IdleProc]
    /\ won' = NoWin
    /\ UNCHANGED <<nativeModule, now, screenData>>
    /\ UNCHANGED acqVars
    /\ UNCHANGED seqVars

\* clearWidgetData: cached files, then widget-data.json when it exists
ClearWidgetDataFile(p) ==
    /\ procs[p].op = "clearWidgetData" /\ procs[p].pc = "clear_file"
    /\ \E ok \in BOOLEAN :
        LET newStore == IF ok THEN [store EXCEPT !["file"] = <<>>] ELSE store IN
        /\ store' = newStore
        /\ OtherWrite(newStore)
    /\ procs' = [procs EXCEPT ![p] = IdleProc]
    /\ won' = NoWin
    /\ UNCHANGED <<nativeModule, now, screenData>>
    /\ UNCHANGED acqVars
    /\ UNCHANGED seqVars

\* history kept by a call of saveWidgetPhotos(photos, mode) from outside the picker
Replaced(photos, mode, ok) ==
    won' = IF ok /\ AdvanceInFlight(AppLoc)
           THEN [active |-> TRUE, photos |-> photos, mode |-> mode]
           ELSE NoWin

displayModeFor(photos) == IF Len(photos) > 1 THEN "slideshow" ELSE "single"

\* HomeScreen.handleSelectLocalPhotos: the copied assets replace the photo set
HandleSelectLocalPhotos ==
    /\ \E photos \in PhotoLists \ {<<>>}, ok \in BOOLEAN :
        LET newStore == saveWidgetData(saveWidgetPhotos(photos, displayModeFor(photos)), ok) IN
        /\ store' = newStore
        /\ OtherWrite(newStore)
        /\ Replaced(photos, displayModeFor(photos), ok)
    /\ UNCHANGED <<nativeModule, now, procs, screenData>>
    /\ UNCHANGED acqVars
    /\ UNCHANGED seqVars

photosOf(w) == IF w = <<>> THEN <<>> ELSE w[1].photos

\* PhotosScreen.loadWidgetData (on focus)
LoadWidgetData ==
    /\ screenData' = photosOf(getWidgetData)
    /\ screenData' # screenData
    /\ UNCHANGED <<nativeModule, store, now, procs, expIdx, advValid, won>>
    /\ UNCHANGED acqVars
    /\ UNCHANGED seqVars

RECURSIVE FilterOut(_, _)
FilterOut(photos, photoId) ==
    IF photos = <<>> THEN <<>>
    ELSE IF Head(photos) = photoId THEN FilterOut(Tail(photos), photoId)
    ELSE <<Head(photos)>> \o FilterOut(Tail(photos), photoId)

\* PhotosScreen.handleDeletePhoto, "Delete" pressed on a photo the screen shows
HandleDeletePhoto ==
    /\ \E k \in 1..Len(screenData), ok \in BOOLEAN :
        LET photos == FilterOut(screenData, screenData[k])
            newStore == saveWidgetData(saveWidgetPhotos(photos, displayModeFor(photos)), ok)
        IN
        /\ store' = newStore
        /\ OtherWrite(newStore)
        /\ Replaced(photos, displayModeFor(photos), ok)
        /\ screenData' = IF ok THEN photosOf(newStore[AppLoc]) ELSE screenData
    /\ UNCHANGED <<nativeModule, now, procs>>
    /\ UNCHANGED acqVars
    /\ UNCHANGED seqVars

\* PhotosScreen.handleClearAll
HandleClearAll ==
    /\ \E ok \in BOOLEAN :
        LET newStore == saveWidgetData(saveWidgetPhotos(<<>>, "single"), ok) IN
        /\ store' = newStore
        /\ OtherWrite(newStore)
        /\ Replaced(<<>>, "single", ok)
        /\ screenData' = IF ok THEN photosOf(newStore[AppLoc]) ELSE screenData
    /\ UNCHANGED <<nativeModule, now, procs>>
    /\ UNCHANGED acqVars
    /\ UNCHANGED seqVars

\* PhotosScreen.handleAddLocalPhotos: the copied assets, each with its file name as id,
\* go after the photos the screen holds; the screen reloads after the save
HandleAddLocalPhotos ==
    /\ \E newPhotos \in PhotoLists \ {<<>>}, ok \in BOOLEAN :
        LET allPhotos == screenData \o newPhotos
            newStore == saveWidgetData(saveWidgetPhotos(allPhotos, displayModeFor(allPhotos)), ok)
        IN
        /\ Len(allPhotos) <= MaxMerged
        /\ store' = newStore
        /\ OtherWrite(newStore)
        /\ Replaced(allPhotos, displayModeFor(allPhotos), ok)
        /\ screenData' = IF ok THEN photosOf(newStore[AppLoc]) ELSE screenData
    /\ UNCHANGED <<nativeModule, now, procs>>
    /\ UNCHANGED acqVars
    /\ UNCHANGED seqVars

(* ----------------------- initial state -------------------------------- *)
\* the locals of one run of startPicker / pollForSelection / fetchSelectedPhotos,
\* and what the run has done so far
NewRun(n, mode, before) ==
    [runs |-> n,                 \* runs started so far
     displayMode |-> mode,       \* the screen's displayMode state
     error |-> "null",           \* the screen's error state
     noToken |-> FALSE,          \* getValidAccessToken returned null to createPickerSession
     sessionRequests |-> 0,      \* POST /sessions requests made
     sessionCreated |-> FALSE,   \* createPickerSession returned a session
     pickerOpened |-> FALSE,     \* openBrowserAsync was called
     attempts |-> 0,             \* pollForSelection's attempts
     pollStarted |-> FALSE,
     pollCalls |-> 0,            \* getPickerSession calls made
     sleeps |-> 0,               \* 5 second sleeps completed
     sleptMs |-> 0,
     readyAt |-> 0,              \* the poll call that first saw mediaItemsSet, 0 when none did
     pollFailed |-> FALSE,       \* a getPickerSession call threw
     fetched |-> FALSE,          \* fetchPickerMediaItems returned
     selected |-> <<>>,          \* response.mediaItems || []
     i |-> 0,                    \* the download loop's i, counted from 1
     downloaded |-> <<>>,        \* per item: the download returned status 200
     widgetPhotos |-> <<>>,
     replaceCalls |-> 0,         \* saveWidgetPhotos calls made
     replaceArg |-> <<>>,        \* the photos handed to saveWidgetPhotos
     replaceOk |-> FALSE,        \* saveWidgetPhotos returned
     deleteCalls |-> 0,          \* deletePickerSession calls made for the run's session
     reachedDone |-> FALSE,      \* setState("done") ran
     reachedError |-> FALSE,     \* setState("error") ran
     before |-> before]          \* the persisted record when the run started

\* the locals and the history of one call made while no other call runs
NewCall(op, at, before, c) ==
    [op |-> op,                  \* the caller
     pc |-> at,                  \* where the caller stands
     before |-> before,          \* the persisted records when the call started
     events |-> <<>>,            \* advance calls and re-render requests the call made, in order
     failed |-> FALSE,           \* a durable write of the call failed
     raised |-> FALSE,           \* the call threw to its caller
     origin |-> c.origin,        \* the index the current row of advance calls started from
     streak |-> c.streak,        \* completed advance calls in a row on streakLoc
     streakLoc |-> c.streakLoc,
     clears |-> c.clears,        \* completed clearWidgetData calls in a row
     photos |-> <<>>,            \* the arguments of a saveWidgetPhotos call
     mode |-> "single"]

NoStreak == [origin |-> 0, streak |-> 0, streakLoc |-> "none", clears |-> 0]

NoCall == NewCall("none", "done", [l \in Locs |-> <<>>], NoStreak)

\* no submit of the custom interval modal yet
NoSubmit == [made |-> FALSE, seconds |-> 0, saved |-> FALSE]

\* SettingsScreen's useState defaults, nothing registered or running, no interval stored
InitSettings ==
    [rotationInterval |-> 1800,
     backgroundFetchEnabled |-> FALSE,
     foregroundServiceEnabled |-> FALSE,
     showCustomModal |-> FALSE,
     customIntervalInput |-> <<>>,
     alert |-> "none",             \* the last Alert.alert title
     stored |-> <<>>,              \* rotationIntervalSeconds of the persisted record
     registered |-> <<>>,          \* minimumInterval of the registered background-fetch task
     service |-> <<>>,             \* interval of the running foreground rotation service
     requested |-> <<>>,           \* history: the interval startRotationService was called with
     submit |-> NoSubmit]          \* history: the last submit of the custom interval modal

\* a record an earlier session left behind
EarlierRecord == WidgetData(Ascending(MaxPhotos), 1, "slideshow", 0)

Init ==
    /\ nativeModule \in BOOLEAN
    /\ \E w \in {<<>>, <<EarlierRecord>>} :
        /\ store = [l \in Locs |-> IF l = AppLoc THEN w ELSE <<>>]
        /\ expIdx = [l \in Locs |-> IF l = AppLoc /\ w # <<>> THEN w[1].currentIndex ELSE 0]
    /\ now = 0
    /\ procs = [p \in Procs |-> IdleProc]
    /\ screenData = <<>>
    /\ advValid = [l \in Locs |-> TRUE]
    /\ won = NoWin
    /\ state = "idle"
    /\ pc = "none"
    /\ run = NewRun(0, "slideshow", <<>>)
    /\ call = NoCall
    /\ settings = InitSettings

Next ==
    \/ \E p \in Procs : RotateToNextPhotoRead(p)
    \/ \E p \in Procs : UpdateCurrentPhotoIndexRead(p)
    \/ \E p \in Procs : UpdateCurrentPhotoIndexWrite(p)
    \/ \E p \in Procs : RotatePhotoRead(p)
    \/ \E p \in Procs : RotatePhotoWrite(p)
    \/ \E p \in Procs : ClearWidgetDataPrefs(p)
    \/ \E p \in Procs : ClearWidgetDataFile(p)
    \/ HandleSelectLocalPhotos

\* the rotation state under concurrent advance, replace and clear
Spec == Init /\ [][Next]_vars

NextPhotos ==
    \/ HandleSelectLocalPhotos
    \/ HandleAddLocalPhotos
    \/ LoadWidgetData
    \/ HandleDeletePhoto
    \/ HandleClearAll

\* the Photos tab: replace, delete one photo, clear all
SpecPhotos == Init /\ [][NextPhotos]_vars

(* ------------------- app/photo-picker.tsx ----------------------------- *)
\* the media items a picker session can return: ids 1..n in ascending or descending order
Selections == {Ascending(n) : n \in 0..MaxItems} \cup {Descending(n) : n \in 0..MaxItems}

\* the message pollForSelection sets after its loop, however the loop ended
PollEndedMessage == "No photos were selected or the session timed out"

\* setError(msg); setState("error")
Failed(r, msg) == [r EXCEPT !.error = msg, !.reachedError = TRUE]

\* the display mode buttons of the idle screen
SetDisplayMode ==
    /\ state = "idle"
    /\ \E m \in DisplayModes :
        /\ m # run.displayMode
        /\ run' = [run EXCEPT !.displayMode = m]
    /\ UNCHANGED <<state, pc>>
    /\ UNCHANGED storeVars
    /\ UNCHANGED seqVars

\* startPicker up to the call of createPickerSession
StartPicker ==
    /\ state = "idle" /\ pc = "none"
    /\ run.runs < MaxRuns
    /\ state' = "creating-session"
    /\ pc' = "createPickerSession"
    /\ run' = NewRun(run.runs + 1, run.displayMode, getWidgetData)
    /\ UNCHANGED storeVars
    /\ UNCHANGED seqVars

\* createPickerSession posting the request without looking at the token
createPickerSessionUnchecked(hasToken, responseOk) ==
    [requests |-> 1,
     result |-> IF responseOk THEN "ok" ELSE "Failed to create picker session"]

\* createPickerSession: the requests it makes and how it ends ("ok": it returns the session)
createPickerSession(hasToken, responseOk) ==
    IF ~hasToken THEN [requests |-> 0, result |-> "Not authenticated"]
    ELSE [requests |-> 1,
          result |-> IF responseOk THEN "ok" ELSE "Failed to create picker session"]

\* startPicker: createPickerSession returns a session, or throws into the catch
CreatePickerSession ==
    /\ pc = "createPickerSession"
    /\ \E hasToken \in BOOLEAN, responseOk \in BOOLEAN :
        LET r == createPickerSession(hasToken, responseOk)
            made == [run EXCEPT !.noToken = ~hasToken, !.sessionRequests = @ + r.requests]
        IN
        /\ hasToken \/ responseOk
        /\ IF r.result = "ok"
           THEN /\ run' = [made EXCEPT !.sessionCreated = TRUE]
                /\ state' = "picker-open"
                /\ pc' = "openBrowserAsync"
           ELSE /\ run' = Failed(made, r.result)
                /\ state' = "error"
                /\ pc' = "none"
    /\ UNCHANGED storeVars
    /\ UNCHANGED seqVars

\* WebBrowser.openBrowserAsync returns when the user closes the browser, or throws
OpenBrowser ==
    /\ pc = "openBrowserAsync"
    /\ \E ok \in BOOLEAN :
        IF ok
        THEN /\ run' = [run EXCEPT !.pickerOpened = TRUE, !.pollStarted = TRUE]
             /\ state' = "polling"
             /\ pc' = "poll"
        ELSE /\ run' = Failed([run EXCEPT !.pickerOpened = TRUE], "Failed to open photo picker")
             /\ state' = "error"
             /\ pc' = "none"
    /\ UNCHANGED storeVars
    /\ UNCHANGED seqVars

\* the loop condition with an off-by-one bound
PollLoopCondInclusive(attempts) == attempts <= maxAttempts

\* while (attempts < maxAttempts)
PollLoopCond(attempts) == attempts < maxAttempts

\* the loop iteration sleeping before it looks at mediaItemsSet
PollReadyAfterSleep ==
    /\ pc = "poll" /\ PollLoopCond(run.attempts)
    /\ run' = [run EXCEPT !.pollCalls = @ + 1, !.readyAt = run.pollCalls + 1,
                          !.sleeps = @ + 1, !.sleptMs = @ + PollIntervalMs]
    /\ state' = "fetching-photos"
    /\ pc' = "fetchPickerMediaItems"
    /\ UNCHANGED storeVars
    /\ UNCHANGED seqVars

\* one loop iteration: getPickerSession reports mediaItemsSet; fetchSelectedPhotos starts
PollReady ==
    /\ pc = "poll" /\ PollLoopCond(run.attempts)
    /\ run' = [run EXCEPT !.pollCalls = @ + 1, !.readyAt = run.pollCalls + 1]
    /\ state' = "fetching-photos"
    /\ pc' = "fetchPickerMediaItems"
    /\ UNCHANGED storeVars
    /\ UNCHANGED seqVars

\* one loop iteration: mediaItemsSet is false; sleep 5 seconds; attempts++
PollNotReady ==
    /\ pc = "poll" /\ PollLoopCond(run.attempts)
    /\ run' = [run EXCEPT !.pollCalls = @ + 1, !.sleeps = @ + 1,
                          !.sleptMs = @ + PollIntervalMs, !.attempts = @ + 1]
    /\ UNCHANGED <<state, pc>>
    /\ UNCHANGED storeVars
    /\ UNCHANGED seqVars

\* the loop going on to its next iteration after a throw
PollThrowRetries ==
    /\ pc = "poll" /\ PollLoopCond(run.attempts)
    /\ run' = [run EXCEPT !.pollCalls = @ + 1, !.pollFailed = TRUE, !.attempts = @ + 1]
    /\ UNCHANGED <<state, pc>>
    /\ UNCHANGED storeVars
    /\ UNCHANGED seqVars

\* one loop iteration: getPickerSession throws; break; setError, setState("error")
PollThrow ==
    /\ pc = "poll" /\ PollLoopCond(run.attempts)
    /\ run' = Failed([run EXCEPT !.pollCalls = @ + 1, !.pollFailed = TRUE], PollEndedMessage)
    /\ state' = "error"
    /\ pc' = "deleteAfterPoll"
    /\ UNCHANGED storeVars
    /\ UNCHANGED seqVars

\* the loop ending without a word: no setError, no setState
PollTimeoutSilent ==
    /\ pc = "poll" /\ ~PollLoopCond(run.attempts)
    /\ pc' = "deleteAfterPoll"
    /\ UNCHANGED <<state, run>>
    /\ UNCHANGED storeVars
    /\ UNCHANGED seqVars

\* the loop condition fails; setError, setState("error")
PollTimeout ==
    /\ pc = "poll" /\ ~PollLoopCond(run.attempts)
    /\ run' = Failed(run, PollEndedMessage)
    /\ state' = "error"
    /\ pc' = "deleteAfterPoll"
    /\ UNCHANGED storeVars
    /\ UNCHANGED seqVars

\* pollForSelection's clean up: deletePickerSession in try / catch {}
DeleteAfterPoll ==
    /\ pc = "deleteAfterPoll"
    /\ \E ok \in BOOLEAN :
        run' = [run EXCEPT !.deleteCalls = @ + 1]
    /\ pc' = "none"
    /\ UNCHANGED state
    /\ UNCHANGED storeVars
    /\ UNCHANGED seqVars

\* fetchPickerMediaItems returns the selection, or throws
FetchPickerMediaItems ==
    /\ pc = "fetchPickerMediaItems"
    /\ \/ /\ run' = Failed(run, "Failed to fetch picker media items")
          /\ state' = "error"
          /\ pc' = "none"
       \/ \E sel \in Selections :
            IF Len(sel) > 0
            THEN /\ run' = [run EXCEPT !.fetched = TRUE, !.selected = sel, !.i = 1]
                 /\ state' = "downloading"
                 /\ pc' = "download"
            ELSE /\ run' = Failed([run EXCEPT !.fetched = TRUE, !.selected = sel],
                                  "No photos were selected")
                 /\ state' = "error"
                 /\ pc' = "deleteAfterFetch"
    /\ UNCHANGED storeVars
    /\ UNCHANGED seqVars

\* any download that returns counts, whatever its status
downloadOkAnyStatus(outcome) == outcome # "throw"

\* downloadResult.status === 200
downloadOk(outcome) == outcome = "200"

\* the check letting an empty list through
hasPhotosOrNone(widgetPhotos) == Len(widgetPhotos) >= 0

\* if (widgetPhotos.length > 0)
hasPhotos(widgetPhotos) == Len(widgetPhotos) > 0

\* widgetPhotos.push
push(widgetPhotos, p) == Append(widgetPhotos, p)

\* one iteration of the download loop; after the last one the check of widgetPhotos.length
Download ==
    /\ pc = "download" /\ run.i <= Len(run.selected)
    /\ \E outcome \in {"200", "403", "throw"} :
        LET p == run.selected[run.i]
            photos == IF downloadOk(outcome) THEN push(run.widgetPhotos, p) ELSE run.widgetPhotos
            r == [run EXCEPT !.widgetPhotos = photos,
                             !.downloaded = Append(@, outcome = "200"),
                             !.i = @ + 1]
        IN
        IF run.i < Len(run.selected)
        THEN /\ run' = r
             /\ UNCHANGED <<state, pc>>
        ELSE IF hasPhotos(photos)
        THEN /\ run' = r
             /\ state' = "saving"
             /\ pc' = "saveWidgetPhotos"
        ELSE /\ run' = Failed(r, "Failed to download photos")
             /\ state' = "error"
             /\ pc' = "deleteAfterFetch"
    /\ UNCHANGED storeVars
    /\ UNCHANGED seqVars

\* saveWidgetPhotos(widgetPhotos, displayMode) returns, then setState("done"); or it throws
SaveWidgetPhotos ==
    /\ pc = "saveWidgetPhotos"
    /\ \E ok \in BOOLEAN :
        LET newStore == saveWidgetData(saveWidgetPhotos(run.widgetPhotos, run.displayMode), ok)
            r == [run EXCEPT !.replaceCalls = @ + 1, !.replaceArg = run.widgetPhotos,
                             !.replaceOk = ok]
        IN
        /\ store' = newStore
        /\ OtherWrite(newStore)
        /\ Replaced(run.widgetPhotos, run.displayMode, ok)
        /\ IF ok
           THEN /\ run' = [r EXCEPT !.reachedDone = TRUE]
                /\ state' = "done"
                /\ pc' = "deleteAfterFetch"
           ELSE /\ run' = Failed(r, "Failed to fetch selected photos")
                /\ state' = "error"
                /\ pc' = "none"
    /\ UNCHANGED <<nativeModule, now, procs, screenData>>
    /\ UNCHANGED seqVars

\* fetchSelectedPhotos' clean up: await deletePickerSession inside the try; a throw
\* reaches the catch: setError, setState("error")
DeleteAfterFetch ==
    /\ pc = "deleteAfterFetch"
    /\ \E ok \in BOOLEAN :
        IF ok
        THEN /\ run' = [run EXCEPT !.deleteCalls = @ + 1]
             /\ UNCHANGED state
        ELSE /\ run' = Failed([run EXCEPT !.deleteCalls = @ + 1], "Not authenticated")
             /\ state' = "error"
    /\ pc' = "none"
    /\ UNCHANGED storeVars
    /\ UNCHANGED seqVars

\* the Try Again button of the error screen: setError(null); setState("idle").
\* What a run that has returned did is forgotten with its error.
TryAgain ==
    /\ state = "error"
    /\ state' = "idle"
    /\ run' = IF pc = "none"
              THEN [NewRun(run.runs, run.displayMode, <<>>) EXCEPT !.error = "null"]
              ELSE [run EXCEPT !.error = "null"]
    /\ UNCHANGED pc
    /\ UNCHANGED storeVars
    /\ UNCHANGED seqVars

NextAcq ==
    \/ SetDisplayMode
    \/ StartPicker
    \/ CreatePickerSession
    \/ OpenBrowser
    \/ PollReady
    \/ PollNotReady
    \/ PollThrow
    \/ PollTimeout
    \/ DeleteAfterPoll
    \/ FetchPickerMediaItems
    \/ Download
    \/ SaveWidgetPhotos
    \/ DeleteAfterFetch
    \/ TryAgain

\* one Google Photos picker run at a time, no other writer of the record
SpecAcq == Init /\ [][NextAcq]_vars

\* the awaited call the run stands at returns or throws, and the code up to the next
\* await runs
RunStep ==
    \/ CreatePickerSession
    \/ PollReady
    \/ PollNotReady
    \/ PollThrow
    \/ PollTimeout
    \/ DeleteAfterPoll
    \/ FetchPickerMediaItems
    \/ Download
    \/ SaveWidgetPhotos
    \/ DeleteAfterFetch

\* runs started one after the other in the screen's default display mode
NextRun ==
    \/ StartPicker
    \/ OpenBrowser
    \/ RunStep
    \/ TryAgain

\* the picker runs when every awaited call of pollForSelection and fetchSelectedPhotos
\* returns or throws in the end; the user may leave the browser open for ever
SpecAcqFair == Init /\ [][NextRun]_vars /\ WF_vars(RunStep)

(* ------------- calls made one at a time: triggers, replace, clear ----- *)
Triggers == {"tap", "backgroundFetch", "widgetUpdate"}

\* the callers of an advance: the three triggers and a direct rotateToNextPhoto call
Advancers == Triggers \cup {"rotateToNextPhoto"}

\* the location the caller's advance reads and writes
AdvanceLoc(op) == IF op = "tap" THEN "file" ELSE AppLoc

\* the record an advance persists
Rotated(w) == [w EXCEPT !.currentIndex = nextIndexOf(w), !.lastUpdated = now]

\* widgets/photo-widget.tsx rotatePhoto makes a write
rotatePhotoWrites == store["file"] # <<>> /\ Len(store["file"][1].photos) > 1

\* the records after widgets/photo-widget.tsx rotatePhoto (ok: its write succeeded)
rotatePhoto(ok) ==
    IF rotatePhotoWrites /\ ok
    THEN [store EXCEPT !["file"] = <<Rotated(store["file"][1])>>]
    ELSE store

\* rotateToNextPhoto reaches saveWidgetData
rotateToNextPhotoWrites == getWidgetData # <<>> /\ Len(getWidgetData[1].photos) # 0

\* the records after rotateToNextPhoto (ok: saveWidgetData succeeded)
rotateToNextPhoto(ok) ==
    IF rotateToNextPhotoWrites
    THEN saveWidgetData(Rotated(getWidgetData[1]), ok)
    ELSE store

\* the caller's advance makes a write
AdvanceWrites(op) == IF op = "tap" THEN rotatePhotoWrites ELSE rotateToNextPhotoWrites

\* the tasks' test before they rotate
shouldRotate(w) == w.displayMode = "slideshow" /\ Len(w.photos) > 1

\* history: the row of advance calls after one more on loc, which held w
Counted(c, loc, w, done) ==
    IF w = <<>> \/ Len(w[1].photos) = 0 \/ ~done
    THEN [c EXCEPT !.origin = 0, !.streak = 0, !.streakLoc = "none", !.clears = 0]
    ELSE IF c.streakLoc = loc /\ c.streak >= 1 /\ c.streak < Len(w[1].photos)
    THEN [c EXCEPT !.streak = @ + 1, !.clears = 0]
    ELSE [c EXCEPT !.origin = w[1].currentIndex, !.streak = 1, !.streakLoc = loc, !.clears = 0]

\* a trigger fires, or rotateToNextPhoto is called: the tap handler and the direct call
\* start with the advance, the two tasks with their own getWidgetData
TriggerFires ==
    /\ call.pc = "done"
    /\ \E op \in Advancers :
        call' = NewCall(op, IF op \in {"tap", "rotateToNextPhoto"} THEN "advance" ELSE "getWidgetData",
                        store, call)
    /\ UNCHANGED <<storeVars, acqVars, settings>>

\* BACKGROUND_FETCH_TASK / WIDGET_UPDATE_TASK: getWidgetData and the tests that follow it
TaskGetWidgetData ==
    /\ call.pc = "getWidgetData"
    /\ LET w == getWidgetData IN
       call' = [call EXCEPT !.pc =
            IF w = <<>> \/ Len(w[1].photos) = 0 THEN "done"
            ELSE IF shouldRotate(w[1]) THEN "advance"
            ELSE IF call.op = "widgetUpdate" THEN "render"
            ELSE "done"]
    /\ UNCHANGED <<storeVars, acqVars, settings>>

\* the caller's advance call: rotatePhoto swallows a failed write, rotateToNextPhoto
\* throws it; the tasks catch the throw and end, the direct call passes it on
TriggerAdvances ==
    /\ call.pc = "advance"
    /\ \E ok \in BOOLEAN :
        LET loc == AdvanceLoc(call.op)
            bad == AdvanceWrites(call.op) /\ ~ok
            c == Counted(call, loc, store[loc], ~bad)
        IN
        /\ ok \/ AdvanceWrites(call.op)
        /\ store' = IF call.op = "tap" THEN rotatePhoto(ok) ELSE rotateToNextPhoto(ok)
        /\ call' = [c EXCEPT !.events = Append(@, "advance"),
                             !.failed = bad,
                             !.raised = bad /\ call.op = "rotateToNextPhoto",
                             !.pc = IF call.op = "tap" THEN "render"
                                    ELSE IF bad \/ call.op = "rotateToNextPhoto" THEN "done"
                                    ELSE "render"]
    /\ UNCHANGED <<nativeModule, now, procs, screenData, expIdx, advValid, won>>
    /\ UNCHANGED <<acqVars, settings>>

\* renderPhotoWidget (tap) / requestWidgetUpdate (tasks): the re-render request
TriggerRenders ==
    /\ call.pc = "render"
    /\ call' = [call EXCEPT !.events = Append(@, "render"), !.pc = "done"]
    /\ UNCHANGED <<storeVars, acqVars, settings>>

\* clearWidgetData that leaves the SharedPreferences entry in place
clearWidgetDataFileOnly(okPrefs, okFile) ==
    IF okPrefs /\ okFile THEN [store EXCEPT !["file"] = <<>>] ELSE store

\* the records after clearWidgetData: the SharedPreferences entry when the module is
\* there, then widget-data.json when it exists; the first throw ends the call
clearWidgetData(okPrefs, okFile) ==
    LET afterPrefs == IF nativeModule /\ okPrefs THEN [store EXCEPT !["prefs"] = <<>>] ELSE store IN
    IF okPrefs /\ okFile THEN [afterPrefs EXCEPT !["file"] = <<>>] ELSE afterPrefs

\* one whole clearWidgetData call; whatever throws is caught and logged
ClearWidgetDataCall ==
    /\ call.pc = "done"
    /\ \E okPrefs \in BOOLEAN, okFile \in BOOLEAN :
        /\ okPrefs \/ nativeModule
        /\ okFile \/ okPrefs
        /\ store' = clearWidgetData(okPrefs, okFile)
        /\ call' = [NewCall("clearWidgetData", "done", store, NoStreak) EXCEPT
                        !.failed = ~(okPrefs /\ okFile),
                        !.clears = IF okPrefs /\ okFile /\ call.clears < 2
                                   THEN call.clears + 1 ELSE call.clears]
    /\ UNCHANGED <<nativeModule, now, procs, screenData, expIdx, advValid, won>>
    /\ UNCHANGED <<acqVars, settings>>

\* one whole saveWidgetPhotos(photos, displayMode) call
SaveWidgetPhotosCall ==
    /\ call.pc = "done"
    /\ \E photos \in PhotoLists, mode \in DisplayModes, ok \in BOOLEAN :
        /\ store' = saveWidgetData(saveWidgetPhotos(photos, mode), ok)
        /\ call' = [NewCall("saveWidgetPhotos", "done", store, NoStreak) EXCEPT
                        !.failed = ~ok, !.raised = ~ok, !.photos = photos, !.mode = mode]
    /\ UNCHANGED <<nativeModule, now, procs, screenData, expIdx, advValid, won>>
    /\ UNCHANGED <<acqVars, settings>>

\* Date.now() moves on between calls
Tick ==
    /\ call.pc = "done"
    /\ now < MaxNow
    /\ now' = now + 1
    /\ UNCHANGED <<nativeModule, store, procs, screenData, expIdx, advValid, won>>
    /\ UNCHANGED <<acqVars, seqVars>>

NextSeq ==
    \/ TriggerFires
    \/ TaskGetWidgetData
    \/ TriggerAdvances
    \/ TriggerRenders
    \/ ClearWidgetDataCall
    \/ SaveWidgetPhotosCall
    \/ Tick

\* triggers, replace and clear called one after the other
SpecSeq == Init /\ [][NextSeq]_vars

(* ------------------------ app/(tabs)/settings.tsx --------------------- *)
INTERVAL_PRESETS == {30, 60, 300, 900, 1800, 3600}

\* what parseInt returns when the text starts with no digit: no number, and below every
\* number the tests compare it with (NaN >= 5 is false)
NaN == 0 - 1

DigitChars == <<"0", "1", "2", "3", "4", "5", "6", "7", "8", "9">>

IsDigit(c) == \E k \in 1..10 : DigitChars[k] = c

DigitValue(c) == (CHOOSE k \in 1..10 : DigitChars[k] = c) - 1

\* the characters typed into the custom interval field
Chars == {"3", "5", "a"}

RECURSIVE TextsOfLen(_)
TextsOfLen(n) ==
    IF n = 0 THEN {<<>>} ELSE {Append(t, c) : t \in TextsOfLen(n - 1), c \in Chars}

Texts == UNION {TextsOfLen(n) : n \in 0..MaxInput}

\* the value of the longest prefix of decimal digits
RECURSIVE ParseDigits(_, _)
ParseDigits(text, acc) ==
    IF text = <<>> \/ ~IsDigit(Head(text)) THEN acc
    ELSE ParseDigits(Tail(text), acc * 10 + DigitValue(Head(text)))

\* parseInt(text, 10) of a text without sign or leading blanks
parseInt(text) ==
    IF text = <<>> \/ ~IsDigit(Head(text)) THEN NaN ELSE ParseDigits(text, 0)

\* Number.prototype.toString of a non-negative integer
RECURSIVE toString(_)
toString(n) ==
    IF n < 10 THEN <<DigitChars[n + 1]>>
    ELSE Append(toString(n \div 10), DigitChars[(n % 10) + 1])

\* the floor test with the floor itself left out
intervalAcceptedAbove(seconds) == seconds # NaN /\ seconds > 5

\* handleCustomIntervalSubmit: if (seconds >= 5)
intervalAccepted(seconds) == seconds # NaN /\ seconds >= 5

\* updateRotationInterval: rotationIntervalSeconds after the call (ok: the durable write succeeded)
updateRotationInterval(seconds, ok) ==
    IF seconds >= 5 /\ ok THEN <<seconds>> ELSE settings.stored

\* registerBackgroundFetch: the registered task after the call; whatever throws is caught
registerBackgroundFetch(registered, interval, okUnregister, okRegister) ==
    IF registered # <<>> /\ ~okUnregister THEN registered
    ELSE IF okRegister THEN <<interval>>
    ELSE <<>>

\* unregisterBackgroundFetch: the registered task after the call; a throw is caught
unregisterBackgroundFetch(registered, okUnregister) ==
    IF registered # <<>> /\ okUnregister THEN <<>> ELSE registered

\* the interval handed on as it came
startRotationServiceNoFloor(intervalSeconds) == intervalSeconds

\* startRotationService: Math.max(10, intervalSeconds), the interval handed to the native service
startRotationService(intervalSeconds) == IF intervalSeconds > 10 THEN intervalSeconds ELSE 10

\* loadSettings: the toggles from the platform, the interval from the persisted record
LoadSettings ==
    /\ settings' = [settings EXCEPT
            !.backgroundFetchEnabled = settings.registered # <<>>,
            !.rotationInterval = IF settings.stored = <<>> THEN 1800 ELSE settings.stored[1],
            !.foregroundServiceEnabled = settings.service # <<>>]
    /\ settings' # settings
    /\ UNCHANGED <<storeVars, acqVars, call>>

\* handleBackgroundFetchToggle
HandleBackgroundFetchToggle ==
    /\ \E value \in BOOLEAN, okUnregister \in BOOLEAN, okRegister \in BOOLEAN :
        /\ okUnregister \/ settings.registered # <<>>
        /\ okRegister \/ (value /\ (okUnregister \/ settings.registered = <<>>))
        /\ settings' = [settings EXCEPT
                !.registered = IF value
                               THEN registerBackgroundFetch(@, settings.rotationInterval,
                                                            okUnregister, okRegister)
                               ELSE unregisterBackgroundFetch(@, okUnregister),
                !.backgroundFetchEnabled = value]
    /\ UNCHANGED <<storeVars, acqVars, call>>

\* handleForegroundServiceToggle: a throw of the native module ends in the catch
HandleForegroundServiceToggle ==
    /\ \E value \in BOOLEAN, ok \in BOOLEAN :
        settings' =
            IF ok
            THEN [settings EXCEPT
                    !.service = IF value THEN <<startRotationService(settings.rotationInterval)>>
                                ELSE <<>>,
                    !.requested = IF value THEN <<settings.rotationInterval>> ELSE <<>>,
                    !.foregroundServiceEnabled = value,
                    !.alert = IF value THEN "Service Started" ELSE @]
            ELSE [settings EXCEPT !.alert = "Error"]
    /\ UNCHANGED <<storeVars, acqVars, call>>

\* handleIntervalChange(seconds): the settings after it (okSave: updateRotationInterval
\* returned; a throw ends the handler)
handleIntervalChange(seconds, okSave, okUnregister, okRegister, okService) ==
    LET s1 == [settings EXCEPT !.rotationInterval = seconds,
                               !.stored = updateRotationInterval(seconds, okSave)]
        s2 == IF settings.backgroundFetchEnabled
              THEN [s1 EXCEPT !.registered =
                        registerBackgroundFetch(@, seconds, okUnregister, okRegister)]
              ELSE s1
        s3 == IF ~settings.foregroundServiceEnabled THEN s2
              ELSE IF okService
              THEN [s2 EXCEPT !.service = <<startRotationService(seconds)>>,
                              !.requested = <<seconds>>]
              ELSE [s2 EXCEPT !.service = <<>>, !.requested = <<>>]
    IN IF okSave THEN s3 ELSE s1

\* the outcomes of the collaborators' calls that handleIntervalChange can reach
Outcomes(okSave, okUnregister, okRegister, okService) ==
    /\ okUnregister \/ (okSave /\ settings.backgroundFetchEnabled /\ settings.registered # <<>>)
    /\ okRegister \/ (okSave /\ settings.backgroundFetchEnabled /\ okUnregister)
    /\ okService \/ (okSave /\ settings.foregroundServiceEnabled)

\* a preset button: handleIntervalChange(preset.value)
HandlePreset ==
    /\ \E seconds \in INTERVAL_PRESETS, okSave \in BOOLEAN, okUnregister \in BOOLEAN,
          okRegister \in BOOLEAN, okService \in BOOLEAN :
        /\ Outcomes(okSave, okUnregister, okRegister, okService)
        /\ settings' = [handleIntervalChange(seconds, okSave, okUnregister, okRegister, okService)
                            EXCEPT !.submit = NoSubmit]
    /\ settings' # settings
    /\ UNCHANGED <<storeVars, acqVars, call>>

\* handleCustomInterval: the modal opens with the current interval in the field
HandleCustomInterval ==
    /\ ~settings.showCustomModal
    /\ settings' = [settings EXCEPT !.customIntervalInput = toString(settings.rotationInterval),
                                    !.showCustomModal = TRUE,
                                    !.submit = NoSubmit]
    /\ UNCHANGED <<storeVars, acqVars, call>>

\* onChangeText of the custom interval field
SetCustomIntervalInput ==
    /\ settings.showCustomModal
    /\ \E text \in Texts :
        /\ text # settings.customIntervalInput
        /\ settings' = [settings EXCEPT !.customIntervalInput = text, !.submit = NoSubmit]
    /\ UNCHANGED <<storeVars, acqVars, call>>

\* handleCustomIntervalSubmit
HandleCustomIntervalSubmit ==
    /\ settings.showCustomModal
    /\ \E okSave \in BOOLEAN, okUnregister \in BOOLEAN, okRegister \in BOOLEAN, okService \in BOOLEAN :
        LET seconds == parseInt(IF settings.customIntervalInput = <<>> THEN <<"3", "0">>
                                ELSE settings.customIntervalInput)
            made == [made |-> TRUE, seconds |-> seconds,
                     saved |-> intervalAccepted(seconds) /\ okSave]
        IN
        /\ Outcomes(okSave, okUnregister, okRegister, okService)
        /\ IF intervalAccepted(seconds)
           THEN settings' =
                [handleIntervalChange(seconds, okSave, okUnregister, okRegister, okService) EXCEPT
                    !.showCustomModal = IF okSave THEN FALSE ELSE @,
                    !.alert = IF okSave /\ seconds < 900 /\ ~settings.foregroundServiceEnabled
                              THEN "Enable Reliable Rotation" ELSE @,
                    !.submit = made]
           ELSE /\ okSave
                /\ settings' = [settings EXCEPT !.alert = "Invalid", !.submit = made]
    /\ UNCHANGED <<storeVars, acqVars, call>>

NextSettings ==
    \/ LoadSettings
    \/ HandlePreset
    \/ HandleCustomInterval
    \/ SetCustomIntervalInput
    \/ HandleCustomIntervalSubmit

\* the Settings tab: the rotation interval
SpecSettings == Init /\ [][NextSettings]_vars

\* the custom intervals handleCustomIntervalSubmit lets through, up to just above the
\* floor of the foreground service
CustomIntervals == {seconds \in 0..MaxCustom : intervalAccepted(seconds)}

\* handleIntervalChange(seconds), called from a preset button or from the custom modal
HandleIntervalChange ==
    /\ \E seconds \in INTERVAL_PRESETS \cup CustomIntervals, okSave \in BOOLEAN,
          okUnregister \in BOOLEAN, okRegister \in BOOLEAN, okService \in BOOLEAN :
        /\ Outcomes(okSave, okUnregister, okRegister, okService)
        /\ settings' = handleIntervalChange(seconds, okSave, okUnregister, okRegister, okService)
    /\ settings' # settings
    /\ UNCHANGED <<storeVars, acqVars, call>>

NextToggles ==
    \/ LoadSettings
    \/ HandlePreset
    \/ HandleBackgroundFetchToggle

\* the Settings tab: the Background Rotation switch and the presets
SpecToggles == Init /\ [][NextToggles]_vars

NextService ==
    \/ LoadSettings
    \/ HandleIntervalChange
    \/ HandleForegroundServiceToggle

\* the Settings tab: the Reliable Rotation switch and the interval
SpecService == Init /\ [][NextService]_vars

(* ------------------------- rotation state claims ---------------------- *)

\* C1: concurrent advance calls lose no increment and apply none twice: on a
\* photo set of length N > 1 that no other writer touched while an advance was
\* in flight, once no advance is in flight the stored index is the starting
\* index moved one step (mod N) per completed advance call.
C1_NoLostAdvance ==
    \A loc \in Locs :
        (/\ advValid[loc]
         /\ ~AdvanceInFlight(loc)
         /\ store[loc] # <<>>
         /\ Len(store[loc][1].photos) > 1)
        => store[loc][1].currentIndex = expIdx[loc]

\* C2: whenever the persisted photo list is non-empty, 0 <= currentIndex < len(photos).
C2_IndexInRange ==
    \A loc \in Locs :
        (store[loc] # <<>> /\ Len(store[loc][1].photos) > 0)
        => (store[loc][1].currentIndex >= 0
            /\ store[loc][1].currentIndex < Len(store[loc][1].photos))

\* C3: a replace that completed while an advance was in flight wins wholesale:
\* once that advance has finished (and nothing else was started), the record
\* holds the replaced photos and mode with currentIndex 0.
C3_ReplaceWins ==
    (won.active /\ ~AdvanceInFlight(AppLoc))
    => (/\ store[AppLoc] # <<>>
        /\ store[AppLoc][1].photos = won.photos
        /\ store[AppLoc][1].displayMode = won.mode
        /\ store[AppLoc][1].currentIndex = 0)

(* ------------------------- acquisition claims ------------------------- *)
\* the run's async code has returned
RunEnded == pc = "none" /\ run.runs > 0

\* the selected items whose download succeeded, in selection order
RECURSIVE Succeeded(_, _)
Succeeded(sel, flags) ==
    IF sel = <<>> \/ flags = <<>> THEN <<>>
    ELSE (IF Head(flags) THEN <<Head(sel)>> ELSE <<>>) \o Succeeded(Tail(sel), Tail(flags))

\* every selected item's download has been attempted
DownloadsAttempted == run.fetched /\ Len(run.downloaded) = Len(run.selected)

SomeDownloadOk == \E k \in DOMAIN run.downloaded : run.downloaded[k]

\* C4: a run that created a session has invoked deletePickerSession for it by
\* the time the run has ended, however it ended.
C4_SessionCleanup ==
    (RunEnded /\ run.sessionCreated) => run.deleteCalls >= 1

\* C5: a run that ends in the error state leaves the persisted record as it was
\* before the run and has performed no replace.
C5_FailureLeavesState ==
    (RunEnded /\ state = "error") => (getWidgetData = run.before /\ ~run.replaceOk)

\* C6: once the replace has succeeded, a failing deletePickerSession is
\* swallowed: the run ends in done and never passes through error.
C6_CleanupFailureSwallowed ==
    (RunEnded /\ run.replaceOk) => (state = "done" /\ ~run.reachedError)

\* C7: when no poll sees mediaItemsSet and no poll throws, the loop makes
\* exactly 60 getPickerSession calls, the run is then in error, and
\* deletePickerSession is invoked exactly once.
C7_TimeoutAfter60 ==
    (run.pollStarted /\ run.readyAt = 0 /\ ~run.pollFailed)
    => /\ run.pollCalls <= 60
       /\ pc = "deleteAfterPoll"
            => (run.pollCalls = 60 /\ run.reachedError /\ run.deleteCalls = 0)
       /\ pc = "none"
            => (run.pollCalls = 60 /\ run.reachedError /\ run.deleteCalls = 1)

C7_Witness ==
    /\ RunEnded /\ run.pollStarted /\ run.readyAt = 0 /\ ~run.pollFailed
    /\ run.pollCalls = 60 /\ run.deleteCalls = 1 /\ state = "error"

\* C8: when mediaItemsSet is first seen on poll k, the run enters
\* fetching-photos after exactly k getPickerSession calls and k-1 sleeps of 5
\* seconds, with 1 <= k <= 60.
C8_ReadyOnAttemptK ==
    (state = "fetching-photos")
    => /\ pc = "fetchPickerMediaItems"
       /\ run.readyAt >= 1 /\ run.readyAt <= 60
       /\ run.pollCalls = run.readyAt
       /\ run.sleeps = run.readyAt - 1
       /\ run.sleptMs = (run.readyAt - 1) * 5000

C8_Witness ==
    state = "fetching-photos" /\ run.readyAt = 60 /\ run.sleeps = 59

\* C9 as stated: whenever at least one download succeeded, the run hands the
\* successful sub-sequence to replace and reaches done.
C9_Original ==
    (RunEnded /\ DownloadsAttempted /\ SomeDownloadOk)
    => (run.replaceArg = Succeeded(run.selected, run.downloaded) /\ run.reachedDone)

\* C9 amended: whenever at least one download succeeded, replace is called once
\* with exactly the selected items whose download succeeded, in selection
\* order; the run reaches done when that replace succeeds, and goes to error
\* with the record untouched when the durable write fails.
C9_PartialDownloads ==
    (DownloadsAttempted /\ SomeDownloadOk /\ pc # "saveWidgetPhotos")
    => /\ run.replaceCalls = 1
       /\ run.replaceArg = Succeeded(run.selected, run.downloaded)
       /\ run.replaceOk => run.reachedDone
       /\ ~run.replaceOk => (run.reachedError /\ ~run.reachedDone /\ getWidgetData = run.before)

C9_Witness ==
    /\ run.downloaded = <<FALSE, TRUE>>
    /\ run.replaceArg = <<run.selected[2]>>
    /\ run.reachedDone

\* C10: when the selection is empty or every download failed, the run reaches
\* error and saveWidgetPhotos is never called in that run.
C10_NothingDownloaded ==
    (DownloadsAttempted /\ ~SomeDownloadOk)
    => /\ run.reachedError /\ ~run.reachedDone
       /\ run.replaceCalls = 0
       /\ getWidgetData = run.before

C10_Witness ==
    /\ DownloadsAttempted /\ ~SomeDownloadOk
    /\ Len(run.selected) >= 2
    /\ run.reachedError /\ RunEnded

(* ------------------- claims on calls made one at a time --------------- *)
\* the record the last advance call ran on
StreakRecord == store[call.streakLoc][1]

\* C11: advance is cyclic: on a photo set of length N >= 1 starting at index i,
\* N advance calls in a row (rotatePhoto or rotateToNextPhoto, each completing
\* its write, no other writer in between) leave currentIndex = i.
C11_AdvanceCyclic ==
    (call.streak >= 1 /\ call.streak = Len(StreakRecord.photos))
    => StreakRecord.currentIndex = call.origin

C11_Witness ==
    /\ call.pc = "done" /\ call.streak = 2 /\ call.origin = 1
    /\ Len(StreakRecord.photos) = 2 /\ StreakRecord.currentIndex = 1

\* C12: replace resets the index: after saveWidgetPhotos(photos, mode) has
\* returned for a non-empty photos, whatever the index was before, the
\* persisted record has currentIndex 0, the given photos in the given order
\* and the given displayMode.
C12_ReplaceResetsIndex ==
    (call.op = "saveWidgetPhotos" /\ ~call.failed /\ call.photos # <<>>)
    => /\ getWidgetData # <<>>
       /\ getWidgetData[1].currentIndex = 0
       /\ getWidgetData[1].photos = call.photos
       /\ getWidgetData[1].displayMode = call.mode

C12_Witness ==
    /\ call.op = "saveWidgetPhotos" /\ ~call.failed
    /\ call.before[AppLoc] # <<>> /\ call.before[AppLoc][1].currentIndex = 1
    /\ Len(call.photos) = 2 /\ call.photos # call.before[AppLoc][1].photos

\* the advance call of a caller that calls advance whatever the record holds has returned
AdvanceReturned ==
    /\ call.op \in {"tap", "rotateToNextPhoto"}
    /\ call.events # <<>>

\* the record the call's advance found
FoundByAdvance == call.before[AdvanceLoc(call.op)]

\* C13: advance on a photo set of length 0 or 1 is a no-op, for rotatePhoto and
\* for rotateToNextPhoto: once the call has returned, the persisted record is
\* the record the call found, lastUpdated included.
C13_NoOpOnShortSet ==
    (/\ AdvanceReturned
     /\ FoundByAdvance # <<>>
     /\ Len(FoundByAdvance[1].photos) <= 1)
    => store = call.before

\* C14: clear is idempotent and safe on missing state: a clearWidgetData call
\* whose storage operations succeed raises no error and leaves read() without
\* photos, also when it is the second call in a row and when nothing was ever
\* written.
C14_ClearIdempotent ==
    (call.op = "clearWidgetData" /\ ~call.failed)
    => /\ ~call.raised
       /\ photosOf(getWidgetData) = <<>>
       /\ getWidgetData = <<>>

\* a second clear in a row, the first of which removed a record
C14_Witness ==
    /\ call.op = "clearWidgetData" /\ ~call.failed
    /\ call.clears = 2
    /\ call.before = store /\ getWidgetData = <<>>

(* --------------------------- settings claims -------------------------- *)
\* a step of handleCustomIntervalSubmit
SubmitStep == ~settings.submit.made /\ settings'.submit.made

\* what a submit of the custom interval must do
SubmitEffect ==
    LET seconds == settings'.submit.seconds IN
    /\ seconds < 5 =>
        /\ settings'.stored = settings.stored
        /\ settings'.rotationInterval = settings.rotationInterval
        /\ settings'.alert = "Invalid"
    /\ seconds >= 5 =>
        /\ settings'.rotationInterval = seconds
        /\ settings'.submit.saved => settings'.stored = <<seconds>>

\* the interval a read returns after a saved submit
SubmitRead ==
    (settings.submit.made /\ settings.submit.saved)
    => (settings.stored = <<settings.submit.seconds>>
        /\ settings.rotationInterval = settings.submit.seconds)

FiringReturned == call.op \in Triggers /\ call.pc = "done"

\* C16: every firing of a rotation trigger (widget tap, background-fetch task,
\* widget-update task) makes exactly one advance call and then exactly one
\* re-render request (a firing whose advance failed is left to C17).
C16_OneAdvanceOneRender ==
    (FiringReturned /\ ~call.failed) => call.events = <<"advance", "render">>

\* C17: a firing whose advance could not persist the new index issues no
\* re-render request and does not throw.
C17_NoRenderAfterFailedWrite ==
    (FiringReturned /\ call.failed)
    => (~call.raised /\ \A k \in DOMAIN call.events : call.events[k] # "render")

(* --------------------- acquisition error claims ----------------------- *)
\* C18: when getValidAccessToken returns no token to createPickerSession, the
\* run goes from creating-session straight to error: no session request is
\* made, no session exists, the picker is never opened and no poll is made.
C18_NoCredential ==
    run.noToken
    => /\ state = "error" /\ pc = "none"
       /\ run.error = "Not authenticated"
       /\ run.sessionRequests = 0 /\ ~run.sessionCreated
       /\ ~run.pickerOpened
       /\ ~run.pollStarted /\ run.pollCalls = 0
       /\ run.deleteCalls = 0 /\ run.replaceCalls = 0

\* the second run of the screen finds no credential
C18_Witness ==
    run.noToken /\ run.runs = 2 /\ state = "error"

\* the poll loop of the run ended without a ready session and the error it set is shown
PollGaveUp ==
    run.pollStarted /\ run.readyAt = 0 /\ run.reachedError /\ state = "error"

\* C19: a poll timeout is told apart from a transport failure: the error a
\* run shows after a getPickerSession call threw is not the error a run shows
\* after 60 attempts without readiness.
C19_TimeoutDistinguishable ==
    (PollGaveUp /\ run.pollFailed) => run.error # PollEndedMessage

\* a step of the run that threw in a poll
SameRun == run'.runs = run.runs /\ run'.pollFailed

\* C20: a getPickerSession call that throws ends the polling at once: the run
\* makes no further getPickerSession call and no further sleep, has set
\* error, and only its session clean-up is left.
C20_PollThrowAborts ==
    /\ [][(run.pollFailed /\ SameRun)
           => (run'.pollCalls = run.pollCalls /\ run'.sleeps = run.sleeps)]_vars
    /\ [](run.pollFailed
           => (run.reachedError /\ pc \in {"deleteAfterPoll", "none"}
               /\ run.sleeps = run.pollCalls - 1 /\ ~run.fetched))

\* the third poll threw after two sleeps, and the run has ended
C20_Witness ==
    /\ run.pollFailed /\ RunEnded /\ state = "error"
    /\ run.pollCalls = 3 /\ run.sleeps = 2 /\ run.deleteCalls = 1

(* ------------------------- rotation timing claims --------------------- *)
\* the foreground service is running
ServiceRunning == settings.service # <<>>

C22_ServiceAtAnyInterval ==
    (ServiceRunning /\ settings.requested # <<>> /\ settings.requested[1] >= 5)
    => settings.service = settings.requested

(* --------------------------- display mode claims --------------------- *)
\* the record the firing's trigger reads and advances
FoundByTrigger == call.before[AdvanceLoc(call.op)]

\* C23: single mode displays one photo: while displayMode = single, no rotation
\* trigger (widget tap, background-fetch task, widget-update task) changes
\* currentIndex, whatever the number of photos.
C23_SingleModeNoRotation ==
    (/\ call.op \in Triggers
     /\ FoundByTrigger # <<>>
     /\ FoundByTrigger[1].displayMode = "single")
    => /\ store[AdvanceLoc(call.op)] # <<>>
       /\ store[AdvanceLoc(call.op)][1].currentIndex = FoundByTrigger[1].currentIndex

(* ---------------------- context/auth-context.tsx ---------------------- *)
\* signOut: unregisterBackgroundFetch, then clearWidgetData, then authSignOut; the two
\* first catch and log whatever their platform calls throw, so signOut goes on to the end
SignOut ==
    /\ call.pc = "done"
    /\ \E okUnregister \in BOOLEAN, okPrefs \in BOOLEAN, okFile \in BOOLEAN :
        /\ okUnregister \/ settings.registered # <<>>
        /\ okPrefs \/ nativeModule
        /\ okFile \/ okPrefs
        /\ settings' = [settings EXCEPT !.registered = unregisterBackgroundFetch(@, okUnregister)]
        /\ store' = clearWidgetData(okPrefs, okFile)
        /\ call' = [NewCall("signOut", "done", store, NoStreak) EXCEPT
                        !.failed = ~(okUnregister /\ okPrefs /\ okFile)]
    /\ UNCHANGED <<nativeModule, now, procs, screenData, expIdx, advValid, won>>
    /\ UNCHANGED acqVars

NextSignOut ==
    \/ SaveWidgetPhotosCall
    \/ HandleBackgroundFetchToggle
    \/ SignOut

\* photos saved, Background Rotation switched, the user signing out
SpecSignOut == Init /\ [][NextSignOut]_vars

\* nothing left for the widget to show, no background task left to run
SignedOutClean ==
    /\ photosOf(getWidgetData) = <<>>
    /\ settings.registered = <<>>

\* C24: sign-out fully clears the widget state: after signOut() has completed,
\* read() returns no photos (record absent or empty) and the background
\* rotation task is no longer registered.
C24_SignOutClears == [][SignOut => SignedOutClean']_vars

(* -------------------------- photo set claims -------------------------- *)
\* no two entries of photos share an id
UniqueIds(photos) == \A i, j \in 1..Len(photos) : photos[i] = photos[j] => i = j

\* C25: photo ids are unique within the persisted photo set in every reachable
\* state: after any sequence of replacements, local-photo additions (which
\* merge into the existing set) and deletions, no two entries of photos share
\* an id.
C25_UniqueIds == \A l \in Locs : UniqueIds(photosOf(store[l]))

(* ------------------------ run state claims --------------------------- *)
\* PickerState in the order a run goes through it
PickerStates ==
    <<"idle", "creating-session", "picker-open", "polling", "fetching-photos",
      "downloading", "saving", "done">>

\* the place of a state other than error in that order
Rank(s) == CHOOSE k \in 1..Len(PickerStates) : PickerStates[k] = s

\* the steps PickerState may take within one run
ForwardStep ==
    \/ /\ state \notin {"done", "error"}
       /\ state' # "error"
       /\ Rank(state') = Rank(state) + 1
    \/ /\ state \notin {"idle", "done", "error"}
       /\ state' = "error"

\* the user leaves the error screen for a new run
NewRunStep == state = "error" /\ state' = "idle"

\* C26: within one acquisition run the state only moves forward along idle,
\* creating-session, picker-open, polling, fetching-photos, downloading,
\* saving, done, or into error from a non-idle state; no state is skipped or
\* revisited, and done and error are terminal for that run: no state change
\* follows either of them until the user starts a new run.
C26_StateOrder == [][state' # state => (ForwardStep \/ NewRunStep)]_vars

(* ------------------------ widget record claims ----------------------- *)
\* getWidgetData of widgets/photo-widget.tsx: the record the widget's render step reads
WidgetGetWidgetData == store["file"]

\* the call was a replace or a clear, or an advance that changed a record, and its
\* writes succeeded
WroteRecord ==
    /\ ~call.failed
    /\ \/ call.op \in {"saveWidgetPhotos", "clearWidgetData"}
       \/ call.op \in Advancers /\ store # call.before

\* C27: the widget's render step consumes the same record the app writes:
\* after a successful replace, advance or clear performed by the app, with or
\* without the native SharedPreferences module, the next widget render reads
\* exactly that record, and an advance performed by a widget tap is visible
\* to the app's next read().
C27_WidgetReadsAppRecord == WroteRecord => WidgetGetWidgetData = getWidgetData

(* ------------------------ clear and advance claims ------------------- *)
\* read() finds no record and no clearWidgetData call is still running
ClearFinished ==
    /\ getWidgetData = <<>>
    /\ \A p \in Procs : procs[p].op # "clearWidgetData"

\* C28: a completed clear is not undone by an in-flight advance: once
\* clearWidgetData has finished, the persisted record stays absent until the
\* next replace, even if a rotateToNextPhoto call that read the old record
\* before the clear finishes afterwards.
C28_ClearNotUndone ==
    [][(ClearFinished /\ getWidgetData' # <<>>) => HandleSelectLocalPhotos]_vars

(* ------------------------ termination claims -------------------------- *)
\* the picker was dismissed and the run has not ended
RunBusy == state \in {"polling", "fetching-photos", "downloading", "saving"}

\* C29: every started acquisition run terminates: once the picker surface is
\* dismissed, and assuming each collaborator call eventually returns or
\* throws, the run eventually reaches done or error; it never stays forever in
\* polling, fetching-photos, downloading or saving.
C29_RunTerminates == RunBusy ~> (state \in {"done", "error"})

\* the loop ran out of attempts, and the run has ended in error
C29_Witness ==
    /\ run.attempts = maxAttempts /\ run.pollCalls = maxAttempts
    /\ state = "error" /\ RunEnded

(* ------------------------ toggle claims ------------------------------- *)
\* C30: after any sequence of Background Rotation toggles and interval changes
\* in Settings, the toggle state backgroundFetchEnabled is true exactly when
\* the background-fetch task is actually registered, including when a
\* register or unregister call to the platform fails.
C30_ToggleMatchesRegistration ==
    settings.backgroundFetchEnabled <=> (settings.registered # <<>>)

====
